---- MODULE Spec2Model ----
(***************************************************************************)
(* A model of lichess-bot's engine abstraction layer (engine_wrapper.py):  *)
(* the managed-option filter, the retried create_engine factory, and the   *)
(* two protocol adapters UCIEngine (structured) and XBoardEngine           *)
(* (line-based).                                                           *)
(*                                                                         *)
(* Python values are encoded as follows.  A dict is a function whose       *)
(* domain is a set of strings.  None is the atom None where a scalar is    *)
(* expected and the one-key function NoneMap where a mapping is expected.  *)
(* A formatted string is the tuple of the pieces the f-string joins.       *)
(* A number of seconds is a record [int, milli]: whole seconds and the     *)
(* thousandths that remain.                                                *)
(***************************************************************************)
EXTENDS Integers, Sequences, FiniteSets, TLC

VARIABLES
    f_in,       \* remove_managed_options: the caller's mapping
    f_out,      \* remove_managed_options: the mapping returned
    f_pc,       \* "ready" | "returned"
    config,     \* create_engine: the caller's configuration mapping
    engine_env, \* what the engine executable advertises once started
    r_pc,       \* the retry loop: "idle" | "call" | "backoff" | "returned" | "raised"
    tries,      \* attempts started so far
    now,        \* seconds since the retry loop started
    elapsed,    \* the loop's "elapsed", read as the current attempt starts
    wait_secs,  \* the sleep the loop has decided on
    result,     \* outcome of the most recent attempt
    procs,      \* engine processes spawned and never quit
    failures,   \* attempts that raised
    successes,  \* attempts that returned an adapter
    late_starts, \* attempts started with elapsed >= max_time
    self,       \* the adapter object in use
    call,       \* the most recent method call: its arguments, what it sent
                \* to the engine, what it returned or raised
    auto_level_sends, \* level commands sent from inside search_with_ponder
    pending,    \* the search whose play call has not returned yet, if any
    wire        \* what went to the engine since the current or most recent
                \* search was called, in order: the lines sent and "play"

filter_vars == <<f_in, f_out, f_pc>>
create_vars == <<config, engine_env, r_pc, tries, now, elapsed, wait_secs,
                 result, procs, failures, successes, late_starts>>
adapter_vars == <<self, call, auto_level_sends>>
search_vars == <<pending, wire>>
vars == <<filter_vars, create_vars, adapter_vars, search_vars>>

(***************************************************************************)
(* Python values                                                           *)
(***************************************************************************)
None == "None"
NoneMap == [None |-> TRUE]
EmptyDict == [n \in {} |-> TRUE]

Get(d, k, default) == IF k \in DOMAIN d THEN d[k] ELSE default
Without(d, k) == [n \in DOMAIN d \ {k} |-> d[n]]
Put(d, k, v) == [n \in DOMAIN d \cup {k} |-> IF n = k THEN v ELSE d[n]]
\* "x or {}" for a mapping that may be None or empty
OrEmpty(d) == IF d = NoneMap \/ DOMAIN d = {} THEN EmptyDict ELSE d

(***************************************************************************)
(* remove_managed_options                                                  *)
(***************************************************************************)
\* str.lower() on the option names the model draws
Lower(s) ==
    CASE s = "Ponder" -> "ponder"
      [] s = "MultiPV" -> "multipv"
      [] s = "UCI_Chess960" -> "uci_chess960"
      [] s = "UCI_Variant" -> "uci_variant"
      [] s = "Hash" -> "hash"
      [] s = "Threads" -> "threads"
      [] OTHER -> s

\* the names chess.engine reserves for itself
MANAGED_OPTIONS == {"uci_chess960", "uci_variant", "multipv", "ponder"}

\* a plausible slip: the comparison forgets to fold case
is_managed_CaseSensitive(key) == key \in MANAGED_OPTIONS

is_managed(key) == Lower(key) \in MANAGED_OPTIONS

remove_managed_options(cfg) ==
    [name \in {n \in DOMAIN cfg : ~is_managed(n)} |-> cfg[name]]

\* option mappings handed to the filter
ScalarNames == {"Hash", "Threads", "Ponder", "ponder", "MultiPV", "UCI_Chess960"}
ScalarValues == {1, 2}
GoCommandSets == {NoneMap, EmptyDict, [movetime |-> 100], [depth |-> 5, nodes |-> 1000]}
OptionMaps ==
    LET scalars == UNION {[S -> ScalarValues] : S \in SUBSET ScalarNames}
    IN scalars \cup {Put(m, "go_commands", [movetime |-> 100]) :
                        m \in {s \in scalars : Cardinality(DOMAIN s) <= 1}}

FilterInit ==
    /\ f_in \in OptionMaps
    /\ f_out = EmptyDict
    /\ f_pc = "ready"

RemoveManagedCall ==
    /\ f_pc = "ready"
    /\ f_out' = remove_managed_options(f_in)
    /\ f_pc' = "returned"
    /\ UNCHANGED f_in
    /\ UNCHANGED <<create_vars, adapter_vars, search_vars>>

(***************************************************************************)
(* The adapters' constructors                                              *)
(***************************************************************************)
NoAdapter == [None |-> TRUE]

\* the attributes of an adapter object; the time-control attributes exist
\* on XBoardEngine only, and minutes/seconds/inc only once has_tc
NewAdapter(cls, go_commands, engine) ==
    [cls |-> cls, go_commands |-> go_commands, engine |-> engine,
     last_move_info |-> EmptyDict, time_control_sent |-> FALSE,
     has_tc |-> FALSE, minutes |-> 0, seconds |-> 0, inc |-> 0]

\* what one call of an Engine class did: status "ok" | "raise", the
\* exception, the adapter, the processes it left running, the mapping
\* handed to engine.configure, and the options mapping it was given as
\* its pops and assignments left it
InitOutcome(status, exc, adapter, spawned, configured, left) ==
    [status |-> status, exc |-> exc, adapter |-> adapter,
     spawned |-> spawned, configured |-> configured, left |-> left]

UCIEngine__init__(commands, options, silence_stderr, env, popen_ok, configure_ok) ==
    LET go_commands == OrEmpty(Get(options, "go_commands", EmptyDict))
        options1 == Without(options, "go_commands")
        engine == [protocol |-> "uci", features |-> EmptyDict,
                   config |-> env.uci_config]
    IN  IF ~popen_ok
        THEN InitOutcome("raise", "EngineError", NoAdapter, 0, NoneMap, options1)
        ELSE IF ~configure_ok
        THEN InitOutcome("raise", "EngineError", NoAdapter, 1, options1, options1)
        ELSE InitOutcome("ok", None, NewAdapter("UCIEngine", go_commands, engine),
                         1, options1, options1)

\* str.split(","): the feature value is the tuple of the types its
\* comma-separated string names; the empty string splits into [""]
Split(s) == IF s = <<>> THEN <<"">> ELSE s

EgtKey(egt_type) ==
    CASE egt_type = "syzygy" -> "egtpath syzygy"
      [] egt_type = "nalimov" -> "egtpath nalimov"
      [] egt_type = "gaviota" -> "egtpath gaviota"
      [] OTHER -> "egtpath "

\* the loop of lines 135-136; ok is FALSE when egt_paths[egt_type] raises
RECURSIVE EgtLoop(_, _, _)
EgtLoop(types, options, egt_paths) ==
    IF types = <<>> THEN [ok |-> TRUE, options |-> options]
    ELSE IF Head(types) \notin DOMAIN egt_paths
    THEN [ok |-> FALSE, options |-> options]
    ELSE EgtLoop(Tail(types),
                 Put(options, EgtKey(Head(types)), egt_paths[Head(types)]),
                 egt_paths)

XBoardEngine__init__(commands, options, silence_stderr, env, popen_ok, configure_ok) ==
    LET egt_paths == OrEmpty(Get(options, "egtpath", EmptyDict))
        options1 == Without(options, "egtpath")
        features == env.features
        egt_types_from_engine ==
            IF "egt" \in DOMAIN features THEN Split(features["egt"]) ELSE <<>>
        loop == EgtLoop(egt_types_from_engine, options1, egt_paths)
        engine == [protocol |-> "xboard", features |-> features, config |-> {}]
    IN  IF ~popen_ok
        THEN InitOutcome("raise", "EngineError", NoAdapter, 0, NoneMap, options)
        ELSE IF ~loop.ok
        THEN InitOutcome("raise", "KeyError", NoAdapter, 1, NoneMap, loop.options)
        ELSE IF ~configure_ok
        THEN InitOutcome("raise", "EngineError", NoAdapter, 1, loop.options,
                         loop.options)
        ELSE InitOutcome("ok", None, NewAdapter("XBoardEngine", EmptyDict, engine),
                         1, loop.options, loop.options)

(***************************************************************************)
(* create_engine (one attempt)                                             *)
(***************************************************************************)
\* engine_type + "_options"; None + str is the caller's TypeError
OptionsKey(engine_type) ==
    CASE engine_type = "xboard" -> "xboard_options"
      [] engine_type = "uci" -> "uci_options"
      [] engine_type = "homemade" -> "homemade_options"

\* "--{}={}".format(k, v) over engine_options.items()
RECURSIVE Flags(_)
Flags(items) ==
    IF items = <<>> THEN <<>>
    ELSE <<<<"--", Head(items)[1], "=", Head(items)[2]>>>> \o Flags(Tail(items))

\* a plausible slip: the class test is inverted
EngineClass_Inverted(engine_type) ==
    IF engine_type = "xboard" THEN "UCIEngine" ELSE "XBoardEngine"

EngineClass(engine_type) ==
    IF engine_type = "xboard" THEN "XBoardEngine" ELSE "UCIEngine"

\* a plausible slip: the managed names are deleted from the mapping given
FilteredObject_InPlace(cfg) == "argument"

\* which object remove_managed_options returns: the dict comprehension
\* builds a new dict, whatever it is given
FilteredObject(cfg) == "new"

\* what one attempt did: the constructor's outcome plus the class whose
\* constructor was entered ("called", None if none was), the options and
\* the command vector it was given
create_engine(conf, env, popen_ok, configure_ok) ==
    LET cfg == conf["engine"]
        engine_path == <<cfg["dir"], cfg["name"]>>
        engine_type == Get(cfg, "protocol", None)
        engine_options == Get(cfg, "engine_options", <<>>)
        commands == <<engine_path>> \o Flags(engine_options)
        silence_stderr == Get(cfg, "silence_stderr", FALSE)
        Engine == EngineClass(engine_type)
    IN  IF engine_type = None
        THEN InitOutcome("raise", "TypeError", NoAdapter, 0, NoneMap, NoneMap) @@
             [called |-> None, passed |-> NoneMap, commands |-> commands,
              config_after |-> conf]
        ELSE LET key == OptionsKey(engine_type)
                 block == OrEmpty(Get(cfg, key, EmptyDict))
                 \* "cfg.get(key, {}) or {}" is the configuration's own
                 \* block unless that is missing, None or empty
                 own_block == key \in DOMAIN cfg /\ block # EmptyDict
                 options == remove_managed_options(block)
                 out == IF Engine = "XBoardEngine"
                        THEN XBoardEngine__init__(commands, options, silence_stderr,
                                                  env, popen_ok, configure_ok)
                        ELSE UCIEngine__init__(commands, options, silence_stderr,
                                               env, popen_ok, configure_ok)
                 \* the constructor's pops and assignments reach the
                 \* configuration only if options is the block itself
                 config_after ==
                     IF own_block /\ FilteredObject(block) = "argument"
                     THEN [conf EXCEPT !["engine"][key] = out.left]
                     ELSE conf
             IN  out @@ [called |-> Engine, passed |-> options,
                         commands |-> commands, config_after |-> config_after]

NoResult ==
    InitOutcome("none", None, NoAdapter, 0, NoneMap, NoneMap) @@
    [called |-> None, passed |-> NoneMap, commands |-> <<>>,
     config_after |-> EmptyDict]

(***************************************************************************)
(* @backoff.on_exception(backoff.expo, BaseException, max_time=120)        *)
(*                                                                         *)
(* The decorator's loop: count the try, read elapsed, call; on success     *)
(* return; on an exception give up (re-raise) if the elapsed read BEFORE   *)
(* the call had reached max_time, else sleep min(jitter(next expo value),  *)
(* max_time - elapsed) and go round again.  Time is counted in whole       *)
(* seconds; a sleep is rounded up to the next second.                      *)
(***************************************************************************)
max_time == 120

\* longest one attempt takes, in seconds
MaxAttemptSecs == 1
\* how finely the random jitter fraction is drawn
JitterLevels == 2

Min(a, b) == IF a <= b THEN a ELSE b

\* backoff.expo with its defaults (base 2, factor 1): 1, 2, 4, ...
expo(n) == 2 ^ (n - 1)

\* backoff.full_jitter: uniform in (0, value]
full_jitter(value) ==
    {(value * j + JitterLevels - 1) \div JitterLevels : j \in 1..JitterLevels}

next_wait(n, el) == {Min(s, max_time - el) : s \in full_jitter(expo(n))}

\* a plausible slip: any failure is final
retry_exception_NoRetry(status, el) ==
    IF status = "ok" THEN "returned" ELSE "raised"

\* a plausible slip: the budget test is strict
retry_exception_Strict(status, el) ==
    IF status = "ok" THEN "returned"
    ELSE IF el > max_time THEN "raised"
    ELSE "backoff"

\* where the loop goes after a call that ended with status
retry_exception(status, el) ==
    IF status = "ok" THEN "returned"
    ELSE IF el >= max_time THEN "raised"
    ELSE "backoff"

\* the configurations create_engine is given: the engine section with or
\* without "protocol", with its own options block missing, null or filled,
\* beside the other protocol's block
UciBlock == [Hash |-> 1, Ponder |-> 1, go_commands |-> [movetime |-> 100]]
XBoardBlock == [Hash |-> 2, ponder |-> 1, egtpath |-> [syzygy |-> "/tb/syzygy"]]
Launch == [dir |-> "./engines/", name |-> "engine"]
LaunchFlags ==
    [dir |-> "./engines/", name |-> "engine", silence_stderr |-> TRUE,
     engine_options |-> <<<<"threads", 2>>>>]
Both(c) == Put(Put(c, "uci_options", UciBlock), "xboard_options", XBoardBlock)
EngineCfgs ==
    {Both(Launch),
     Put(Launch, "uci_options", UciBlock),
     Put(Both(Launch), "protocol", "uci"),
     Put(Put(Launch, "xboard_options", XBoardBlock), "protocol", "uci"),
     Put(Put(Both(LaunchFlags), "uci_options", NoneMap), "protocol", "uci"),
     Put(Put(Launch, "uci_options",
             [Threads |-> 2, MultiPV |-> 2, go_commands |-> NoneMap]),
         "protocol", "uci"),
     Put(Both(Launch), "protocol", "homemade"),
     Put(Both(LaunchFlags), "protocol", "xboard"),
     Put(Put(Launch, "uci_options", UciBlock), "protocol", "xboard"),
     Put(Put(Both(Launch), "xboard_options", NoneMap), "protocol", "xboard"),
     Put(Put(Launch, "xboard_options", [Threads |-> 1, UCI_Chess960 |-> 1]),
         "protocol", "xboard")}
Configs == {[engine |-> c] : c \in EngineCfgs}

\* the engines: the features an xboard engine declares (egt: the types of
\* its comma-separated list), the options a uci engine declares, and the
\* transient fault it shows when an attempt goes wrong: it fails to start
\* ("popen") or starts and rejects its configuration ("configure")
EgtFeatures ==
    {EmptyDict, [egt |-> <<>>], [egt |-> <<"syzygy">>],
     [egt |-> <<"syzygy", "nalimov">>]}
EngineEnvs ==
    {[features |-> f, uci_config |-> {"UCI_Opponent"}, fault |-> k] :
        f \in EgtFeatures, k \in {"popen", "configure"}}
\* features are an xboard notion
EnvsFor(conf) ==
    IF Get(conf["engine"], "protocol", None) = "xboard" THEN EngineEnvs
    ELSE {e \in EngineEnvs : e.features = EmptyDict}

CreateInit ==
    /\ config \in Configs
    /\ engine_env \in EnvsFor(config)
    /\ r_pc = "call"
    /\ tries = 0
    /\ now = 0
    /\ elapsed = 0
    /\ wait_secs = 0
    /\ result = NoResult
    /\ procs = 0
    /\ failures = 0
    /\ successes = 0
    /\ late_starts = 0

\* one turn of the loop: the call, and what the loop decides after it
Attempt ==
    /\ r_pc = "call"
    /\ \E d \in 0..MaxAttemptSecs, faulty \in BOOLEAN :
          LET popen_ok == ~(faulty /\ engine_env.fault = "popen")
              configure_ok == ~(faulty /\ engine_env.fault = "configure")
              out == create_engine(config, engine_env, popen_ok, configure_ok)
              next == retry_exception(out.status, now)
          IN  /\ tries' = tries + 1
              /\ elapsed' = now
              /\ now' = now + d
              /\ result' = out
              /\ procs' = procs + out.spawned
              /\ failures' = failures + (IF out.status = "ok" THEN 0 ELSE 1)
              /\ successes' = successes + (IF out.status = "ok" THEN 1 ELSE 0)
              /\ late_starts' = late_starts + (IF now >= max_time THEN 1 ELSE 0)
              /\ r_pc' = next
              /\ IF next = "backoff"
                 THEN wait_secs' \in next_wait(tries + 1, now)
                 ELSE wait_secs' = 0
              /\ config' = out.config_after
    /\ UNCHANGED engine_env
    /\ UNCHANGED <<filter_vars, adapter_vars, search_vars>>

\* time.sleep(seconds)
Backoff ==
    /\ r_pc = "backoff"
    /\ now' = now + wait_secs
    /\ wait_secs' = 0
    /\ r_pc' = "call"
    /\ UNCHANGED <<config, engine_env, tries, elapsed, result, procs,
                   failures, successes, late_starts>>
    /\ UNCHANGED <<filter_vars, adapter_vars, search_vars>>

(***************************************************************************)
(* The adapters' methods.  Each operator gives the adapter after the call  *)
(* and the record of the call.  The engine is the mock the call talks to:  *)
(* play reports one of PlayResults or raises, send_line and configure      *)
(* succeed or raise.                                                       *)
(***************************************************************************)
\* t / 1000 (true division) and t // 1000 (floor division), in seconds
TrueDiv1000(t) == [int |-> t \div 1000, milli |-> t % 1000]
FloorDiv1000(t) == [int |-> t \div 1000, milli |-> 0]

\* str() of the ratings the model draws
Str(n) == CASE n = 2800 -> "2800" [] n = 2500 -> "2500" [] OTHER -> "0"

Call(op, args, sent, plays, configured, reported, move, ponder, stats, raised) ==
    [op |-> op, args |-> args, sent |-> sent, plays |-> plays,
     configured |-> configured, reported |-> reported, move |-> move,
     ponder |-> ponder, stats |-> stats, raised |-> raised]

NoCall == Call("init", EmptyDict, <<>>, <<>>, <<>>, None, None, None, <<>>, None)

\* what engine.play reports: move, ponder move, info; ok is FALSE when it raises
PlayResults ==
    {[ok |-> TRUE, move |-> "e2e4", ponder |-> "e7e5",
      info |-> [depth |-> 12, nps |-> 900, nodes |-> 5000, score |-> 20,
                string |-> "book"]],
     [ok |-> TRUE, move |-> "d2d4", ponder |-> None,
      info |-> [depth |-> 8, score |-> 15, pv |-> 1]],
     [ok |-> TRUE, move |-> "g1f3", ponder |-> None, info |-> EmptyDict]}
PlayRaises == [ok |-> FALSE, move |-> None, ponder |-> None, info |-> EmptyDict]

\* a plausible slip: the structured adapter truncates too
UCIFirstLimit_Floor(movetime) == [time |-> FloorDiv1000(movetime)]

UCIFirstLimit(movetime) == [time |-> TrueDiv1000(movetime)]

XBoardFirstLimit(movetime) == [time |-> FloorDiv1000(movetime)]

\* a plausible slip: the metadata is cleared before the play call
first_search_Clobber(s, movetime, res) ==
    LET limit == IF s.cls = "XBoardEngine" THEN XBoardFirstLimit(movetime)
                 ELSE UCIFirstLimit(movetime)
        plays == <<[limit |-> limit, ponder |-> FALSE]>>
        args == [movetime |-> movetime]
    IN  IF ~res.ok
        THEN [self |-> [s EXCEPT !.last_move_info = EmptyDict],
              call |-> Call("first_search", args, <<>>, plays, <<>>, res.move,
                            None, None, <<>>, "EngineError")]
        ELSE [self |-> [s EXCEPT !.last_move_info = res.info],
              call |-> Call("first_search", args, <<>>, plays, <<>>, res.move,
                            res.move, None, <<>>, None)]

\* first_search of either class: one play call, info kept, move returned
first_search(s, movetime, res) ==
    LET limit == IF s.cls = "XBoardEngine" THEN XBoardFirstLimit(movetime)
                 ELSE UCIFirstLimit(movetime)
        plays == <<[limit |-> limit, ponder |-> FALSE]>>
        args == [movetime |-> movetime]
    IN  IF ~res.ok
        THEN [self |-> s,
              call |-> Call("first_search", args, <<>>, plays, <<>>, res.move,
                            None, None, <<>>, "EngineError")]
        ELSE [self |-> [s EXCEPT !.last_move_info = res.info],
              call |-> Call("first_search", args, <<>>, plays, <<>>, res.move,
                            res.move, None, <<>>, None)]

\* a plausible slip: the configured movetime is passed on in milliseconds
UCISearchLimit_RawMovetime(cmds, wtime, btime, winc, binc) ==
    LET clocks == [white_clock |-> TrueDiv1000(wtime),
                   black_clock |-> TrueDiv1000(btime),
                   white_inc |-> TrueDiv1000(winc),
                   black_inc |-> TrueDiv1000(binc)]
        d == IF "depth" \in DOMAIN cmds THEN Put(clocks, "depth", cmds["depth"])
             ELSE clocks
        n == IF "nodes" \in DOMAIN cmds THEN Put(d, "nodes", cmds["nodes"]) ELSE d
    IN  IF "movetime" \in DOMAIN cmds
        THEN Put(n, "time", [int |-> cmds["movetime"], milli |-> 0])
        ELSE n

\* chess.engine.Limit keeps the bounds that are given and not None
UCISearchLimit(cmds, wtime, btime, winc, binc) ==
    LET clocks == [white_clock |-> TrueDiv1000(wtime),
                   black_clock |-> TrueDiv1000(btime),
                   white_inc |-> TrueDiv1000(winc),
                   black_inc |-> TrueDiv1000(binc)]
        d == IF "depth" \in DOMAIN cmds THEN Put(clocks, "depth", cmds["depth"])
             ELSE clocks
        n == IF "nodes" \in DOMAIN cmds THEN Put(d, "nodes", cmds["nodes"]) ELSE d
    IN  IF "movetime" \in DOMAIN cmds
        THEN Put(n, "time", TrueDiv1000(cmds["movetime"]))
        ELSE n

UCIEngine_search_with_ponder(s, wtime, btime, winc, binc, ponder, res) ==
    LET time_limit == UCISearchLimit(s.go_commands, wtime, btime, winc, binc)
        plays == <<[limit |-> time_limit, ponder |-> ponder]>>
        args == [wtime |-> wtime, btime |-> btime, winc |-> winc,
                 binc |-> binc, ponder |-> ponder]
    IN  IF ~res.ok
        THEN [self |-> s,
              call |-> Call("search_with_ponder", args, <<>>, plays, <<>>,
                            res.move, None, None, <<>>, "EngineError")]
        ELSE [self |-> [s EXCEPT !.last_move_info = res.info],
              call |-> Call("search_with_ponder", args, <<>>, plays, <<>>,
                            res.move, res.move, res.ponder, <<>>, None)]

\* a plausible slip: the seconds are not reduced modulo 60
set_time_control_NoMod(s, clock_initial, clock_increment) ==
    [self |-> [s EXCEPT !.has_tc = TRUE,
                        !.minutes = (clock_initial \div 1000) \div 60,
                        !.seconds = clock_initial \div 1000,
                        !.inc = clock_increment \div 1000],
     call |-> Call("set_time_control",
                   [clock_initial |-> clock_initial,
                    clock_increment |-> clock_increment],
                   <<>>, <<>>, <<>>, None, None, None, <<>>, None)]

\* XBoardEngine.set_time_control: nothing is sent
set_time_control(s, clock_initial, clock_increment) ==
    [self |-> [s EXCEPT !.has_tc = TRUE,
                        !.minutes = (clock_initial \div 1000) \div 60,
                        !.seconds = (clock_initial \div 1000) % 60,
                        !.inc = clock_increment \div 1000],
     call |-> Call("set_time_control",
                   [clock_initial |-> clock_initial,
                    clock_increment |-> clock_increment],
                   <<>>, <<>>, <<>>, None, None, None, <<>>, None)]

\* a plausible slip: the flag is never set
send_time_NoFlag(s, send_ok) ==
    IF ~s.has_tc THEN [self |-> s, sent |-> <<>>, raised |-> "AttributeError"]
    ELSE IF ~send_ok THEN [self |-> s, sent |-> <<>>, raised |-> "EngineError"]
    ELSE [self |-> s,
          sent |-> <<<<"level", 0, s.minutes, s.seconds, s.inc>>>>,
          raised |-> None]

\* a plausible slip: the flag is set before the line is sent
send_time_FlagFirst(s, send_ok) ==
    IF ~s.has_tc
    THEN [self |-> [s EXCEPT !.time_control_sent = TRUE], sent |-> <<>>,
          raised |-> "AttributeError"]
    ELSE IF ~send_ok
    THEN [self |-> [s EXCEPT !.time_control_sent = TRUE], sent |-> <<>>,
          raised |-> "EngineError"]
    ELSE [self |-> [s EXCEPT !.time_control_sent = TRUE],
          sent |-> <<<<"level", 0, s.minutes, s.seconds, s.inc>>>>,
          raised |-> None]

\* XBoardEngine.send_time: self.minutes is no attribute before
\* set_time_control; the flag is set after the line went out
send_time(s, send_ok) ==
    IF ~s.has_tc THEN [self |-> s, sent |-> <<>>, raised |-> "AttributeError"]
    ELSE IF ~send_ok THEN [self |-> s, sent |-> <<>>, raised |-> "EngineError"]
    ELSE [self |-> [s EXCEPT !.time_control_sent = TRUE],
          sent |-> <<<<"level", 0, s.minutes, s.seconds, s.inc>>>>,
          raised |-> None]

\* a plausible slip: the clocks are truncated like first_search's movetime
XBoardClockLimit_Floor(wtime, btime) ==
    [white_clock |-> FloorDiv1000(wtime), black_clock |-> FloorDiv1000(btime)]

XBoardClockLimit(wtime, btime) ==
    [white_clock |-> TrueDiv1000(wtime), black_clock |-> TrueDiv1000(btime)]

\* a plausible slip: the ponder move is passed on as UCIEngine does
XBoardSearchReturn_Ponder(res) == [move |-> res.move, ponder |-> res.ponder]

\* return result.move, None
XBoardSearchReturn(res) == [move |-> res.move, ponder |-> None]

XBoardEngine_search_with_ponder(s, wtime, btime, winc, binc, ponder, send_ok, res) ==
    LET st == IF ~s.time_control_sent THEN send_time(s, send_ok)
              ELSE [self |-> s, sent |-> <<>>, raised |-> None]
        time_limit == XBoardClockLimit(wtime, btime)
        plays == <<[limit |-> time_limit, ponder |-> ponder]>>
        args == [wtime |-> wtime, btime |-> btime, winc |-> winc,
                 binc |-> binc, ponder |-> ponder]
    IN  IF st.raised # None
        THEN [self |-> st.self,
              call |-> Call("search_with_ponder", args, st.sent, <<>>, <<>>,
                            None, None, None, <<>>, st.raised)]
        ELSE IF ~res.ok
        THEN [self |-> st.self,
              call |-> Call("search_with_ponder", args, st.sent, plays, <<>>,
                            res.move, None, None, <<>>, "EngineError")]
        ELSE [self |-> [st.self EXCEPT !.last_move_info = res.info],
              call |-> Call("search_with_ponder", args, st.sent, plays, <<>>,
                            res.move, XBoardSearchReturn(res).move,
                            XBoardSearchReturn(res).ponder, <<>>, None)]

\* stop and ponderhit: one raw line; EngineWrapper.ponderhit does nothing
ControlLine(s, op) ==
    IF op = "stop" THEN (IF s.cls = "XBoardEngine" THEN <<<<"?">>>> ELSE <<<<"stop">>>>)
    ELSE (IF s.cls = "XBoardEngine" THEN <<>> ELSE <<<<"ponderhit">>>>)

\* a plausible slip: a control call resets the last-search metadata
control_ClearsInfo(s, op, send_ok) ==
    LET lines == ControlLine(s, op)
    IN  [self |-> [s EXCEPT !.last_move_info = EmptyDict],
         call |-> IF lines # <<>> /\ ~send_ok
                  THEN Call(op, EmptyDict, <<>>, <<>>, <<>>, None, None, None,
                            <<>>, "EngineError")
                  ELSE Call(op, EmptyDict, lines, <<>>, <<>>, None, None, None,
                            <<>>, None)]

control(s, op, send_ok) ==
    LET lines == ControlLine(s, op)
    IN  [self |-> s,
         call |-> IF lines # <<>> /\ ~send_ok
                  THEN Call(op, EmptyDict, <<>>, <<>>, <<>>, None, None, None,
                            <<>>, "EngineError")
                  ELSE Call(op, EmptyDict, lines, <<>>, <<>>, None, None, None,
                            <<>>, None)]

\* a plausible slip: an absent field is reported with a default
RECURSIVE get_handler_stats_Default(_, _)
get_handler_stats_Default(info, stats) ==
    IF stats = <<>> THEN <<>>
    ELSE <<<<Head(stats), ": ", Get(info, Head(stats), 0)>>>>
         \o get_handler_stats_Default(info, Tail(stats))

\* "{}: {}".format(stat, info[stat]) for the stats found in info, in order
RECURSIVE get_handler_stats(_, _)
get_handler_stats(info, stats) ==
    IF stats = <<>> THEN <<>>
    ELSE (IF Head(stats) \in DOMAIN info
          THEN <<<<Head(stats), ": ", info[Head(stats)]>>>>
          ELSE <<>>) \o get_handler_stats(info, Tail(stats))

get_stats(s) ==
    LET fields == IF s.cls = "XBoardEngine" THEN <<"depth", "nodes", "score">>
                  ELSE <<"depth", "nps", "nodes", "score">>
    IN  [self |-> s,
         call |-> Call("get_stats", EmptyDict, <<>>, <<>>, <<>>, None, None, None,
                       get_handler_stats(s.last_move_info, fields), None)]

\* a plausible slip: any titled opponent counts as a computer
UCIOpponentValue_Titled(opponent) ==
    LET rating == IF "rating" \in DOMAIN opponent THEN Str(opponent["rating"])
                  ELSE "none"
        title == IF "title" \in DOMAIN opponent THEN opponent["title"] ELSE "none"
        player_type == IF title # "none" THEN "computer" ELSE "human"
    IN  <<title, rating, player_type, opponent["name"]>>

\* f"{title} {rating} {player_type} {name}"; an attribute that is None is
\* a key the opponent mapping lacks
UCIOpponentValue(opponent) ==
    LET rating == IF "rating" \in DOMAIN opponent THEN Str(opponent["rating"])
                  ELSE "none"
        title == IF "title" \in DOMAIN opponent THEN opponent["title"] ELSE "none"
        player_type == IF title = "BOT" THEN "computer" ELSE "human"
    IN  <<title, rating, player_type, opponent["name"]>>

\* a plausible slip: the engine's declared options are not consulted
UCIEngine_get_opponent_info_Unchecked(s, game, configure_ok) ==
    LET opponent == game.opponent
        args == [opponent |-> opponent, me |-> game.me]
    IN  IF "name" \in DOMAIN opponent
        THEN [self |-> s,
              call |-> Call("get_opponent_info", args, <<>>, <<>>,
                            <<[UCI_Opponent |-> UCIOpponentValue(opponent)]>>,
                            None, None, None, <<>>,
                            IF configure_ok THEN None ELSE "EngineError")]
        ELSE [self |-> s,
              call |-> Call("get_opponent_info", args, <<>>, <<>>, <<>>,
                            None, None, None, <<>>, None)]

UCIEngine_get_opponent_info(s, game, configure_ok) ==
    LET opponent == game.opponent
        args == [opponent |-> opponent, me |-> game.me]
    IN  IF "name" \in DOMAIN opponent /\ "UCI_Opponent" \in s.engine.config
        THEN [self |-> s,
              call |-> Call("get_opponent_info", args, <<>>, <<>>,
                            <<[UCI_Opponent |-> UCIOpponentValue(opponent)]>>,
                            None, None, None, <<>>,
                            IF configure_ok THEN None ELSE "EngineError")]
        ELSE [self |-> s,
              call |-> Call("get_opponent_info", args, <<>>, <<>>, <<>>,
                            None, None, None, <<>>, None)]

\* a plausible slip: the three tests are chained with elif
XBoardOpponentLines_Elif(opponent, me, features) ==
    IF "name" \in DOMAIN opponent /\ Get(features, "name", 1) # 0
    THEN <<IF "title" \in DOMAIN opponent
           THEN <<"name", opponent["title"], " ", opponent["name"]>>
           ELSE <<"name", opponent["name"]>>>>
    ELSE IF "rating" \in DOMAIN me /\ "rating" \in DOMAIN opponent
    THEN <<<<"rating", Str(me["rating"]), Str(opponent["rating"])>>>>
    ELSE IF Get(opponent, "title", None) = "BOT"
    THEN <<<<"computer">>>>
    ELSE <<>>

\* the lines XBoardEngine.get_opponent_info sends, in order
XBoardOpponentLines(opponent, me, features) ==
    (IF "name" \in DOMAIN opponent /\ Get(features, "name", 1) # 0
     THEN <<IF "title" \in DOMAIN opponent
            THEN <<"name", opponent["title"], " ", opponent["name"]>>
            ELSE <<"name", opponent["name"]>>>>
     ELSE <<>>)
    \o (IF "rating" \in DOMAIN me /\ "rating" \in DOMAIN opponent
        THEN <<<<"rating", Str(me["rating"]), Str(opponent["rating"])>>>>
        ELSE <<>>)
    \o (IF Get(opponent, "title", None) = "BOT" THEN <<<<"computer">>>> ELSE <<>>)

\* the send_line numbered fail raises (0: none does); the lines before it went out
XBoardEngine_get_opponent_info(s, game, fail) ==
    LET lines == XBoardOpponentLines(game.opponent, game.me, s.engine.features)
        args == [opponent |-> game.opponent, me |-> game.me]
    IN  [self |-> s,
         call |-> IF fail \in 1..Len(lines)
                  THEN Call("get_opponent_info", args, SubSeq(lines, 1, fail - 1),
                            <<>>, <<>>, None, None, None, <<>>, "EngineError")
                  ELSE Call("get_opponent_info", args, lines, <<>>, <<>>,
                            None, None, None, <<>>, None)]

(***************************************************************************)
(* The adapter in use: inputs and actions                                  *)
(***************************************************************************)
Movetimes == {0, 100, 999, 1000, 2500}
\* <<wtime, btime>> and <<winc, binc>>, in milliseconds
ClockPairs == {<<0, 0>>, <<1500, 2000>>, <<2000, 999>>}
IncPairs == {<<0, 0>>, <<1500, 500>>}
ClockInitials == {0, 59999, 125500}
ClockIncrements == {0, 2500}
Opponents ==
    {EmptyDict,
     [name |-> "Magnus", title |-> "BOT"],
     [name |-> "Magnus", rating |-> 2800, title |-> "GM"],
     [name |-> "Magnus", rating |-> 2800, title |-> "BOT"],
     [name |-> "Magnus", rating |-> 2800],
     [rating |-> 2800, title |-> "BOT"]}
Games == {[opponent |-> o, me |-> m] : o \in Opponents,
                                       m \in {EmptyDict, [rating |-> 2500]}}

\* the adapters create_engine can return
AdapterEnvs ==
    {[features |-> f, uci_config |-> c] :
        f \in {EmptyDict, [name |-> 0], [name |-> 1]},
        c \in {{}, {"UCI_Opponent"}}}
\* the options a UCIEngine is constructed with: go_commands absent, null,
\* empty or filled, beside an option of the engine's own
UCIOptionSets ==
    {[Hash |-> 1]} \cup {[Hash |-> 1, go_commands |-> g] : g \in GoCommandSets}
\* the constructor calls that returned: the options given and the outcome
AdapterBuilds ==
    {[options |-> o,
      out |-> UCIEngine__init__(<<>>, o, FALSE, e, TRUE, TRUE)] :
        o \in UCIOptionSets, e \in {x \in AdapterEnvs : x.features = EmptyDict}}
    \cup
    {[options |-> EmptyDict,
      out |-> XBoardEngine__init__(<<>>, EmptyDict, FALSE, e, TRUE, TRUE)] :
        e \in {x \in AdapterEnvs : x.uci_config = {}}}

\* the record of a constructor call: the mapping it handed to configure
ConstructorCall(b) ==
    Call("__init__", [options |-> b.options], <<>>, <<>>, <<b.out.configured>>,
         None, None, None, <<>>, None)

\* no search is in flight
NoPending == [None |-> TRUE]

AdapterInit ==
    /\ \E b \in AdapterBuilds :
          /\ self = b.out.adapter
          /\ call = ConstructorCall(b)
    /\ auto_level_sends = 0
    /\ pending = NoPending
    /\ wire = <<>>

AdapterIdle ==
    /\ self = NoAdapter
    /\ call = NoCall
    /\ auto_level_sends = 0
    /\ pending = NoPending
    /\ wire = <<>>

\* a method called while no search is in flight, run to its end
Apply(out) ==
    /\ pending = NoPending
    /\ self' = out.self
    /\ call' = out.call
    /\ UNCHANGED <<filter_vars, create_vars, search_vars>>

FirstSearch ==
    /\ \E movetime \in Movetimes, res \in PlayResults \cup {PlayRaises} :
          Apply(first_search(self, movetime, res))
    /\ UNCHANGED auto_level_sends

UCISearchWithPonder ==
    /\ self.cls = "UCIEngine"
    /\ \E t \in ClockPairs, i \in IncPairs, ponder \in BOOLEAN,
          res \in PlayResults \cup {PlayRaises} :
          Apply(UCIEngine_search_with_ponder(self, t[1], t[2], i[1], i[2],
                                             ponder, res))
    /\ UNCHANGED auto_level_sends

XBoardSearchWithPonder ==
    /\ self.cls = "XBoardEngine"
    /\ \E t \in ClockPairs, i \in IncPairs, ponder \in BOOLEAN,
          send_ok \in BOOLEAN, res \in PlayResults \cup {PlayRaises} :
          LET out == XBoardEngine_search_with_ponder(self, t[1], t[2], i[1],
                                                     i[2], ponder, send_ok, res)
          IN  /\ Apply(out)
              /\ auto_level_sends' = auto_level_sends + Len(out.call.sent)

SetTimeControl ==
    /\ self.cls = "XBoardEngine"
    /\ \E ci \in ClockInitials, inc \in ClockIncrements :
          Apply(set_time_control(self, ci, inc))
    /\ UNCHANGED auto_level_sends

SendTime ==
    /\ self.cls = "XBoardEngine"
    /\ \E send_ok \in BOOLEAN :
          LET st == send_time(self, send_ok)
          IN  Apply([self |-> st.self,
                     call |-> Call("send_time", EmptyDict, st.sent, <<>>, <<>>,
                                   None, None, None, <<>>, st.raised)])
    /\ UNCHANGED auto_level_sends

Stop ==
    /\ \E send_ok \in BOOLEAN : Apply(control(self, "stop", send_ok))
    /\ UNCHANGED auto_level_sends

Ponderhit ==
    /\ \E send_ok \in BOOLEAN : Apply(control(self, "ponderhit", send_ok))
    /\ UNCHANGED auto_level_sends

GetStats ==
    /\ Apply(get_stats(self))
    /\ UNCHANGED auto_level_sends

UCIGetOpponentInfo ==
    /\ self.cls = "UCIEngine"
    /\ \E game \in Games, configure_ok \in BOOLEAN :
          Apply(UCIEngine_get_opponent_info(self, game, configure_ok))
    /\ UNCHANGED auto_level_sends

XBoardGetOpponentInfo ==
    /\ self.cls = "XBoardEngine"
    /\ \E game \in Games, fail \in 0..3 :
          Apply(XBoardEngine_get_opponent_info(self, game, fail))
    /\ UNCHANGED auto_level_sends

(***************************************************************************)
(* A search in flight.  engine.play blocks the caller until the engine     *)
(* answers; meanwhile a second context may call stop or ponderhit, which   *)
(* write one line to the engine and return.  The search method is split    *)
(* at its play call: BeginSearch runs it up to the call, EndSearch from    *)
(* the call's answer to the return.                                        *)
(***************************************************************************)
\* stop and ponderhit calls the second context makes during one search
MaxControls == 2

SearchRequests ==
    {[op |-> "first_search", movetime |-> t] : t \in {100, 2500}}
    \cup
    {[op |-> "search_with_ponder", wtime |-> t[1], btime |-> t[2],
      winc |-> i[1], binc |-> i[2], ponder |-> p] :
        t \in {<<1500, 2000>>}, i \in IncPairs, p \in BOOLEAN}

\* the search method a request names, on the class of s
SearchCall(s, m, send_ok, res) ==
    IF m.op = "first_search" THEN first_search(s, m.movetime, res)
    ELSE IF s.cls = "XBoardEngine"
    THEN XBoardEngine_search_with_ponder(s, m.wtime, m.btime, m.winc, m.binc,
                                         m.ponder, send_ok, res)
    ELSE UCIEngine_search_with_ponder(s, m.wtime, m.btime, m.winc, m.binc,
                                      m.ponder, res)

\* the first word of each line
Words(lines) == [i \in 1..Len(lines) |-> lines[i][1]]

\* the caller enters a search method.  What the method does before play
\* answers is what it has done when play raises: the adapter as send_time
\* left it and the lines sent.  A method that raised before its play call
\* is over; otherwise the caller is now blocked in play.
BeginSearch ==
    /\ pending = NoPending
    /\ \E m \in SearchRequests, send_ok \in BOOLEAN :
          LET before == SearchCall(self, m, send_ok, PlayRaises)
          IN  /\ self' = before.self
              /\ IF before.call.plays = <<>>
                 THEN /\ call' = before.call
                      /\ pending' = NoPending
                      /\ wire' = Words(before.call.sent)
                 ELSE /\ call' = call
                      /\ pending' = [req |-> m, sent |-> before.call.sent]
                      /\ wire' = Words(before.call.sent) \o <<"play">>
    /\ UNCHANGED auto_level_sends
    /\ UNCHANGED <<filter_vars, create_vars>>

\* play answers or raises; the method runs to its end
EndSearch ==
    /\ pending # NoPending
    /\ \E res \in PlayResults \cup {PlayRaises} :
          LET after == SearchCall(self, pending.req, TRUE, res)
          IN  /\ self' = after.self
              /\ call' = [after.call EXCEPT !.sent = pending.sent]
    /\ pending' = NoPending
    /\ UNCHANGED <<wire, auto_level_sends>>
    /\ UNCHANGED <<filter_vars, create_vars>>

\* the control calls made so far during this search ("-": one that sent nothing)
ControlsMade == Len(SelectSeq(wire, LAMBDA w : w \in {"stop", "?", "ponderhit", "-"}))

\* stop or ponderhit run by the second context while the caller is in play
ControlStep(out) ==
    /\ self' = out.self
    /\ call' = out.call
    /\ wire' = wire \o (IF out.call.sent = <<>> THEN <<"-">>
                         ELSE Words(out.call.sent))
    /\ UNCHANGED <<pending, auto_level_sends>>
    /\ UNCHANGED <<filter_vars, create_vars>>

StopDuringSearch ==
    /\ pending # NoPending
    /\ ControlsMade < MaxControls
    /\ \E send_ok \in BOOLEAN : ControlStep(control(self, "stop", send_ok))

PonderhitDuringSearch ==
    /\ pending # NoPending
    /\ ControlsMade < MaxControls
    /\ \E send_ok \in BOOLEAN : ControlStep(control(self, "ponderhit", send_ok))

(***************************************************************************)
(* Specifications                                                          *)
(***************************************************************************)
FilterIdle == f_in = EmptyDict /\ f_out = EmptyDict /\ f_pc = "idle"
CreateIdle ==
    /\ config = EmptyDict
    /\ engine_env = EmptyDict
    /\ r_pc = "idle"
    /\ tries = 0
    /\ now = 0
    /\ elapsed = 0
    /\ wait_secs = 0
    /\ result = NoResult
    /\ procs = 0
    /\ failures = 0
    /\ successes = 0
    /\ late_starts = 0

NextFilter == RemoveManagedCall
InitFilter == FilterInit /\ CreateIdle /\ AdapterIdle
SpecFilter == InitFilter /\ [][NextFilter]_vars

NextCreate == Attempt \/ Backoff
InitCreate == CreateInit /\ FilterIdle /\ AdapterIdle
SpecCreate == InitCreate /\ [][NextCreate]_vars

NextAdapter ==
    \/ FirstSearch
    \/ UCISearchWithPonder
    \/ XBoardSearchWithPonder
    \/ SetTimeControl
    \/ SendTime
    \/ Stop
    \/ Ponderhit
    \/ GetStats
    \/ UCIGetOpponentInfo
    \/ XBoardGetOpponentInfo
InitAdapter == AdapterInit /\ FilterIdle /\ CreateIdle
SpecAdapter == InitAdapter /\ [][NextAdapter]_vars
Spec == SpecAdapter

\* the adapter with searches in flight; the other methods are called
\* between searches only
NextSearch ==
    \/ BeginSearch
    \/ EndSearch
    \/ StopDuringSearch
    \/ PonderhitDuringSearch
    \/ SetTimeControl
    \/ SendTime
    \/ GetStats
SpecSearch == InitAdapter /\ [][NextSearch]_vars

(***************************************************************************)
(* Claims about remove_managed_options (SpecFilter)                        *)
(***************************************************************************)
\* C1: remove_managed_options returns exactly the entries of its input
\* whose name is not on the managed list, each with its original value,
\* always returns, and leaves the input mapping as it was.
C1_RemoveManagedExact ==
    [][f_pc = "ready" =>
         /\ f_pc' = "returned"
         /\ f_in' = f_in
         /\ \A n \in DOMAIN f_out' :
               /\ n \in DOMAIN f_in
               /\ f_out'[n] = f_in[n]
               /\ Lower(n) \notin MANAGED_OPTIONS
         /\ \A n \in DOMAIN f_in :
               Lower(n) \notin MANAGED_OPTIONS => n \in DOMAIN f_out']_vars

\* a call that dropped managed names (one of them capitalised) and kept the rest
C1_Witness ==
    /\ f_pc = "returned"
    /\ {"Ponder", "MultiPV", "Hash", "Threads"} \subseteq DOMAIN f_in
    /\ DOMAIN f_out = {"Hash", "Threads"}
    /\ f_out["Hash"] = 2

(***************************************************************************)
(* Claims about create_engine (SpecCreate)                                 *)
(***************************************************************************)
\* the managed-option-filtered contents of a block, stated from the list
FilteredBlock(block) ==
    [n \in {k \in DOMAIN block : Lower(k) \notin MANAGED_OPTIONS} |-> block[n]]

\* C2: every attempt constructs XBoardEngine if engine.protocol is "xboard"
\* and UCIEngine for every other value, the absent key included, and hands
\* it the filtered "<protocol>_options" block (empty if missing or null).
C2_AdapterByProtocol ==
    tries > 0 =>
        LET cfg == config["engine"]
            protocol == Get(cfg, "protocol", None)
            block == IF protocol = None THEN EmptyDict
                     ELSE OrEmpty(Get(cfg, OptionsKey(protocol), EmptyDict))
        IN  /\ result.called =
                  (IF protocol = "xboard" THEN "XBoardEngine" ELSE "UCIEngine")
            /\ result.passed = FilteredBlock(block)

\* C3: k failures then a success give the adapter of attempt k+1 after
\* exactly k+1 attempts: a failure within the budget is retried and never
\* propagated, the first success ends the loop, and nothing is attempted
\* after it.
C3_ReturnsFirstSuccess ==
    /\ successes <= 1
    /\ (successes = 1) <=> (r_pc = "returned")
    /\ r_pc = "returned" =>
          /\ result.status = "ok"
          /\ result.adapter # NoAdapter
          /\ result.adapter.cls = result.called
          /\ tries = failures + 1
    /\ r_pc = "raised" => elapsed >= max_time

\* two failed attempts, then the third returns its adapter
C3_Witness ==
    /\ r_pc = "returned"
    /\ failures = 2
    /\ tries = 3
    /\ result.adapter.cls = "UCIEngine"

\* C4 as claimed: when every attempt has failed and the loop has given up,
\* no attempt was started once the budget was exhausted, and the last
\* failure is what is propagated.  Stated for the configurations that name
\* their protocol, where an attempt fails only if the engine does.
C4_NoAttemptOnceExhausted ==
    ("protocol" \in DOMAIN config["engine"] /\ r_pc = "raised") =>
        /\ late_starts = 0
        /\ result.status = "raise"
        /\ result.adapter = NoAdapter

\* C4 as amended: retrying ends; exactly one attempt is started once the
\* budget is exhausted (the give-up test runs only after a failure, against
\* the elapsed time read as that attempt started); it is the last attempt,
\* it starts no later than the budget plus the time the attempt before it
\* took, and its failure is what the caller gets.
C4_Bounded ==
    /\ late_starts <= 1
    /\ elapsed <= max_time + MaxAttemptSecs
    /\ late_starts = 1 => r_pc \in {"returned", "raised"}
    /\ r_pc = "raised" =>
          /\ late_starts = 1
          /\ elapsed >= max_time
          /\ successes = 0
          /\ failures = tries
          /\ result.status = "raise"
          /\ result.adapter = NoAdapter
\* each sleep moves the clock on and each turn counts one more try, so
\* C4_Bounded leaves room for finitely many turns
C4_LastFailurePropagates ==
    /\ []C4_Bounded
    /\ [][/\ r_pc = "backoff" => now' > now /\ r_pc' = "call"
          /\ r_pc = "call" => tries' = tries + 1 /\ now' >= now
          /\ r_pc \in {"returned", "raised"} => FALSE]_vars

\* every attempt failed and the error of the attempt started late came out
C4_Witness ==
    /\ r_pc = "raised"
    /\ tries >= 3
    /\ late_starts = 1
    /\ result.exc = "EngineError"

\* the tablebase types the engine advertises, as a set
AdvertisedEgt ==
    IF "egt" \in DOMAIN engine_env.features
    THEN {engine_env.features["egt"][i] :
             i \in 1..Len(engine_env.features["egt"])}
    ELSE {}

\* the caller's type-to-path mapping
CallerEgtPaths ==
    LET block == OrEmpty(Get(config["engine"], "xboard_options", EmptyDict))
    IN  OrEmpty(Get(block, "egtpath", EmptyDict))

\* C18: whatever the engine advertises and whatever type-to-path mapping
\* the caller gives (one that lacks an advertised type included), an
\* attempt that constructs XBoardEngine on an engine that starts and
\* accepts its configuration does not fail, and configure gets an
\* "egtpath <type>" entry with the caller's path for the advertised types
\* and for no other, and no "egtpath" entry.
C18_EgtPathsResolved ==
    (tries > 0 /\ result.called = "XBoardEngine"
       /\ result.exc # "EngineError") =>
        /\ result.status = "ok"
        /\ "egtpath" \notin DOMAIN result.configured
        /\ \A t \in AdvertisedEgt \cap DOMAIN CallerEgtPaths :
              /\ EgtKey(t) \in DOMAIN result.configured
              /\ result.configured[EgtKey(t)] = CallerEgtPaths[t]
        /\ \A t \in {"syzygy", "nalimov", "gaviota"} \ AdvertisedEgt :
              EgtKey(t) \notin DOMAIN result.configured

\* C19: at every point of the retry loop every live engine process that
\* create_engine spawned belongs to the adapter it returns: none is live
\* before it returns, exactly one once it has returned an adapter, and a
\* failed attempt leaves none behind.
C19_NoUnownedProcess ==
    /\ procs <= 1
    /\ procs = (IF r_pc = "returned" THEN 1 ELSE 0)
    /\ r_pc = "returned" => result.adapter # NoAdapter

\* the protocol's options block as the configuration holds it
ConfigBlock ==
    LET cfg == config["engine"]
    IN  OrEmpty(Get(cfg, OptionsKey(cfg["protocol"]), EmptyDict))

\* C20: no attempt changes the configuration mapping, whether it returns
\* or raises; every attempt after the first is given the same options as
\* the one before it; and the adapter returned after failed attempts still
\* has the go_commands the configuration names.
C20_ConfigUnchanged ==
    /\ [][config' = config]_vars
    /\ [][(r_pc = "call" /\ tries > 0) => result'.passed = result.passed]_vars
    /\ []((r_pc = "returned" /\ result.called = "UCIEngine") =>
             result.adapter.go_commands =
                 OrEmpty(Get(ConfigBlock, "go_commands", EmptyDict)))

\* two attempts failed after go_commands was popped, the third returned:
\* the block still has go_commands and its managed name, and the adapter
\* got the override
C20_Witness ==
    /\ r_pc = "returned"
    /\ failures = 2
    /\ result.called = "UCIEngine"
    /\ {"go_commands", "Ponder", "Hash"} \subseteq DOMAIN ConfigBlock
    /\ ConfigBlock["go_commands"] = [movetime |-> 100]
    /\ result.adapter.go_commands = [movetime |-> 100]
    /\ DOMAIN result.left = {"Hash"}

(***************************************************************************)
(* Claims about the adapters (SpecAdapter)                                 *)
(***************************************************************************)
IsXBoard == self.cls = "XBoardEngine"
IsUCI == self.cls = "UCIEngine"

\* C5: first_search makes exactly one play call, limited to movetime/1000
\* seconds exactly on UCIEngine and to movetime // 1000 on XBoardEngine,
\* and returns the move that call reported.
C5_FirstSearchLimit ==
    call.op = "first_search" =>
        LET t == call.args["movetime"]
        IN  /\ Len(call.plays) = 1
            /\ DOMAIN call.plays[1].limit = {"time"}
            /\ call.plays[1].limit["time"].int = t \div 1000
            /\ call.plays[1].limit["time"].milli = (IF IsUCI THEN t % 1000 ELSE 0)
            /\ call.raised = None => call.move = call.reported

\* 100 ms is 0.1 s on UCIEngine
C5_Witness ==
    /\ IsUCI
    /\ call.op = "first_search"
    /\ call.args["movetime"] = 100
    /\ call.plays[1].limit["time"] = [int |-> 0, milli |-> 100]
    /\ call.move = "d2d4"

\* C6 as claimed: the clocks handed to the engine are t/1000 exactly on
\* UCIEngine and t // 1000 on XBoardEngine.
C6_ClocksTruncatedOnXBoard ==
    (call.op = "search_with_ponder" /\ call.plays # <<>>) =>
        LET limit == call.plays[1].limit
            w == call.args["wtime"]
            b == call.args["btime"]
        IN  /\ limit["white_clock"] =
                  (IF IsUCI THEN TrueDiv1000(w) ELSE FloorDiv1000(w))
            /\ limit["black_clock"] =
                  (IF IsUCI THEN TrueDiv1000(b) ELSE FloorDiv1000(b))

\* C6 as amended: on both adapters the clocks handed to the engine are
\* t/1000 exactly, thousandths kept, so for the same t the two adapters'
\* clock limits are the same; only XBoardEngine.first_search truncates.
C6_ClocksExactOnBoth ==
    (call.op = "search_with_ponder" /\ call.plays # <<>>) =>
        LET limit == call.plays[1].limit
            w == call.args["wtime"]
            b == call.args["btime"]
        IN  /\ Len(call.plays) = 1
            /\ limit["white_clock"] = [int |-> w \div 1000, milli |-> w % 1000]
            /\ limit["black_clock"] = [int |-> b \div 1000, milli |-> b % 1000]

\* XBoardEngine hands over 1.5 s and 0.999 s untruncated
C6_Witness ==
    /\ IsXBoard
    /\ call.op = "search_with_ponder"
    /\ call.plays # <<>>
    /\ call.args["wtime"] = 2000
    /\ call.args["btime"] = 999
    /\ call.plays[1].limit["black_clock"] = [int |-> 0, milli |-> 999]

LevelLines(lines) == SelectSeq(lines, LAMBDA l : l[1] = "level")

\* C7: on XBoardEngine time_control_sent starts false, never goes back to
\* false, and once it is true no search_with_ponder sends a level command;
\* search_with_ponder sends at most one level command in a game.
C7_LevelSentOnce ==
    /\ IsXBoard => ~self.time_control_sent
    /\ [](IsXBoard => auto_level_sends <= 1)
    /\ [][IsXBoard =>
            /\ self.time_control_sent => self'.time_control_sent
            /\ (self.time_control_sent /\ call'.op = "search_with_ponder")
                  => LevelLines(call'.sent) = <<>>]_vars

\* a search_with_ponder that sent no level command after an earlier one did
C7_Witness ==
    /\ IsXBoard
    /\ self.time_control_sent
    /\ auto_level_sends = 1
    /\ call.op = "search_with_ponder"
    /\ call.sent = <<>>
    /\ call.plays # <<>>

\* C8: get_stats never raises and lists "key: value" for exactly the fields
\* of the class's list that the last search's info holds, in the list's
\* order, with nothing for an absent field or a key outside the list.
C8_StatsOnlyPresent ==
    call.op = "get_stats" =>
        LET fields == IF IsUCI THEN <<"depth", "nps", "nodes", "score">>
                      ELSE <<"depth", "nodes", "score">>
            info == self.last_move_info
            present == SelectSeq(fields, LAMBDA f : f \in DOMAIN info)
        IN  /\ call.raised = None
            /\ Len(call.stats) = Len(present)
            /\ \A i \in 1..Len(present) :
                  call.stats[i] = <<present[i], ": ", info[present[i]]>>

\* info without nodes (and with a key outside the list): no nodes entry
C8_Witness ==
    /\ call.op = "get_stats"
    /\ DOMAIN self.last_move_info = {"depth", "score", "pv"}
    /\ call.stats = <<<<"depth", ": ", 8>>, <<"score", ": ", 15>>>>

\* C9: the UCI_Opponent value UCIEngine.get_opponent_info sends is
\* "<title> <rating> <kind> <name>": title or "none", rating or "none",
\* kind "computer" iff the title is "BOT" and "human" otherwise.
C9_OpponentValue ==
    (IsUCI /\ call.op = "get_opponent_info" /\ call.configured # <<>>) =>
        LET o == call.args["opponent"]
            v == call.configured[1]["UCI_Opponent"]
        IN  /\ Len(call.configured) = 1
            /\ DOMAIN call.configured[1] = {"UCI_Opponent"}
            /\ Len(v) = 4
            /\ v[1] = (IF "title" \in DOMAIN o THEN o["title"] ELSE "none")
            /\ v[2] = (IF "rating" \in DOMAIN o THEN Str(o["rating"]) ELSE "none")
            /\ (v[3] = "computer") <=> (Get(o, "title", None) = "BOT")
            /\ (v[3] = "human") <=> (Get(o, "title", None) # "BOT")
            /\ v[4] = o["name"]

\* {name: Magnus, rating: None, title: BOT} gives "BOT none computer Magnus"
C9_Witness ==
    /\ IsUCI
    /\ call.op = "get_opponent_info"
    /\ call.args["opponent"] = [name |-> "Magnus", title |-> "BOT"]
    /\ call.configured = <<[UCI_Opponent |-> <<"BOT", "none", "computer", "Magnus">>]>>

\* C10: XBoardEngine.get_opponent_info sends, in the order name, rating,
\* computer, each line iff its own condition holds: name iff the opponent
\* has a name and the features allow one, rating iff both ratings are
\* known, "computer" iff the opponent's title is "BOT"; nothing else.
C10_IndependentLines ==
    (IsXBoard /\ call.op = "get_opponent_info" /\ call.raised = None) =>
        LET o == call.args["opponent"]
            me == call.args["me"]
            kinds == [i \in 1..Len(call.sent) |-> call.sent[i][1]]
            wantName == "name" \in DOMAIN o
                        /\ Get(self.engine.features, "name", 1) # 0
            wantRating == "rating" \in DOMAIN me /\ "rating" \in DOMAIN o
            wantComputer == Get(o, "title", None) = "BOT"
        IN  /\ kinds = (IF wantName THEN <<"name">> ELSE <<>>)
                       \o (IF wantRating THEN <<"rating">> ELSE <<>>)
                       \o (IF wantComputer THEN <<"computer">> ELSE <<>>)
            /\ \A i \in 1..Len(call.sent) :
                  kinds[i] = "computer" => call.sent[i] = <<"computer">>
            /\ call.plays = <<>> /\ call.configured = <<>>

\* all three lines went out, in order
C10_Witness ==
    /\ IsXBoard
    /\ call.op = "get_opponent_info"
    /\ call.raised = None
    /\ Len(call.sent) = 3
    /\ call.sent[1][1] = "name"
    /\ call.sent[2] = <<"rating", "2500", "2800">>
    /\ call.sent[3] = <<"computer">>

\* C11: every search_with_ponder on XBoardEngine that reaches the engine
\* makes one play call whose limit holds the two clocks and nothing else
\* (no increment, depth, nodes or time), with the ponder flag as given; a
\* call that returns gives back the move the engine reported and None as
\* the ponder move.
C11_ClocksOnlyNoPonderMove ==
    (IsXBoard /\ call.op = "search_with_ponder" /\ call.plays # <<>>) =>
        /\ Len(call.plays) = 1
        /\ DOMAIN call.plays[1].limit = {"white_clock", "black_clock"}
        /\ call.plays[1].ponder = call.args["ponder"]
        /\ call.raised = None =>
              /\ call.ponder = None
              /\ call.move = call.reported
              /\ call.move # None

\* pondering asked for, increments given, the engine answered e2e4 (with a
\* ponder move of its own): the caller gets (e2e4, None)
C11_Witness ==
    /\ IsXBoard
    /\ call.op = "search_with_ponder"
    /\ call.raised = None
    /\ call.args["ponder"]
    /\ call.args["winc"] = 1500
    /\ call.move = "e2e4"
    /\ call.ponder = None

IsSearch(c) == c.op \in {"first_search", "search_with_ponder"}

\* C12: a first_search or search_with_ponder whose play call fails, on
\* either class, raises after exactly one play call, returns no move and
\* leaves last_move_info as it was; last_move_info changes only in a search
\* that returned, so what get_stats reads is always the info of the most
\* recent search that completed.
C12_FailedSearchKeepsInfo ==
    [][/\ (IsSearch(call') /\ call'.raised # None /\ call'.plays # <<>>) =>
             /\ Len(call'.plays) = 1
             /\ call'.move = None
             /\ self'.last_move_info = self.last_move_info
       /\ (IsSearch(call') /\ call'.raised # None /\ call'.plays = <<>>) =>
             self'.last_move_info = self.last_move_info
       /\ self'.last_move_info # self.last_move_info =>
             /\ IsSearch(call')
             /\ call'.raised = None
             /\ Len(call'.plays) = 1
       /\ call'.op = "get_stats" => self' = self]_vars

\* a search_with_ponder failed in its play call after an earlier search
\* had completed: the earlier search's info is still there
C12_Witness ==
    /\ call.op = "search_with_ponder"
    /\ call.raised = "EngineError"
    /\ Len(call.plays) = 1
    /\ DOMAIN self.last_move_info = {"depth", "score", "pv"}

TimeControl(s) == <<s.has_tc, s.minutes, s.seconds, s.inc>>

\* C14: set_time_control sends nothing and records minutes =
\* initial // 60000, seconds = (initial // 1000) mod 60, a value in 0..59
\* with minutes*60 + seconds = initial // 1000, and inc = increment // 1000;
\* no other method changes what is recorded, and every level command that
\* goes out is "level 0 <minutes>:<seconds> <inc>" of the values recorded.
C14_LevelEncodesTimeControl ==
    [][IsXBoard =>
         /\ call'.op = "set_time_control" =>
               LET initial == call'.args["clock_initial"]
                   increment == call'.args["clock_increment"]
               IN  /\ call'.sent = <<>>
                   /\ call'.plays = <<>>
                   /\ call'.configured = <<>>
                   /\ call'.raised = None
                   /\ self'.minutes = initial \div 60000
                   /\ self'.seconds = (initial \div 1000) % 60
                   /\ self'.inc = increment \div 1000
                   /\ self'.seconds \in 0..59
                   /\ self'.minutes * 60 + self'.seconds = initial \div 1000
         /\ call'.op # "set_time_control" => TimeControl(self') = TimeControl(self)
         /\ \A i \in 1..Len(call'.sent) :
               call'.sent[i][1] = "level" =>
                  /\ self.has_tc
                  /\ call'.sent[i] =
                        <<"level", 0, self.minutes, self.seconds, self.inc>>]_vars

\* 125.5 s + 2.5 s went out as "level 0 2:5 2" from inside a search
C14_Witness ==
    /\ IsXBoard
    /\ call.op = "search_with_ponder"
    /\ call.raised = None
    /\ call.sent = <<<<"level", 0, 2, 5, 2>>>>
    /\ self.minutes = 2
    /\ self.seconds = 5

HasOpponentOption == "UCI_Opponent" \in self.engine.config

\* C15 as claimed: UCIEngine.get_opponent_info makes exactly one configure
\* call if the engine declares UCI_Opponent, whoever the opponent is (one
\* without a name included), and sends nothing and raises nothing if the
\* engine does not declare it.
C15_OneUpdateForEveryOpponent ==
    (IsUCI /\ call.op = "get_opponent_info") =>
        IF HasOpponentOption
        THEN Len(call.configured) = 1
        ELSE call.configured = <<>> /\ call.raised = None

\* C15 as amended: exactly one configure call, setting UCI_Opponent and
\* nothing else, if the engine declares UCI_Opponent and the opponent has a
\* name; if the engine does not declare it or the opponent has no name,
\* nothing goes to the engine and nothing is raised.
C15_OneUpdateForNamedOpponent ==
    (IsUCI /\ call.op = "get_opponent_info") =>
        /\ call.sent = <<>>
        /\ call.plays = <<>>
        /\ IF HasOpponentOption /\ "name" \in DOMAIN call.args["opponent"]
           THEN /\ Len(call.configured) = 1
                /\ DOMAIN call.configured[1] = {"UCI_Opponent"}
           ELSE /\ call.configured = <<>>
                /\ call.raised = None

\* the engine declares UCI_Opponent, the opponent (a rated BOT) has no
\* name: nothing was sent
C15_Witness ==
    /\ IsUCI
    /\ HasOpponentOption
    /\ call.op = "get_opponent_info"
    /\ call.args["opponent"] = [rating |-> 2800, title |-> "BOT"]
    /\ call.configured = <<>>
    /\ call.raised = None

\* C16: UCIEngine's constructor hands configure the options without
\* go_commands and keeps go_commands (empty if absent or null), which no
\* method changes; every search_with_ponder makes one play call whose limit
\* holds the four clock values plus depth and nodes as configured and time =
\* movetime/1000, each only if configured, with the ponder flag as given,
\* and returns the move and ponder move the engine reported; first_search
\* uses none of go_commands.
C16_GoCommandsInSearchOnly ==
    /\ []((IsUCI /\ call.op = "__init__") =>
             LET options == call.args["options"]
             IN  /\ Len(call.configured) = 1
                 /\ "go_commands" \notin DOMAIN call.configured[1]
                 /\ call.configured[1] = [n \in DOMAIN options \ {"go_commands"}
                                            |-> options[n]]
                 /\ self.go_commands =
                       (IF "go_commands" \in DOMAIN options
                           /\ options["go_commands"] # NoneMap
                        THEN options["go_commands"] ELSE EmptyDict))
    /\ []((IsUCI /\ call.op = "search_with_ponder") =>
             LET g == self.go_commands
                 limit == call.plays[1].limit
             IN  /\ Len(call.plays) = 1
                 /\ DOMAIN limit =
                       {"white_clock", "black_clock", "white_inc", "black_inc"}
                       \cup (IF "depth" \in DOMAIN g THEN {"depth"} ELSE {})
                       \cup (IF "nodes" \in DOMAIN g THEN {"nodes"} ELSE {})
                       \cup (IF "movetime" \in DOMAIN g THEN {"time"} ELSE {})
                 /\ "depth" \in DOMAIN g => limit["depth"] = g["depth"]
                 /\ "nodes" \in DOMAIN g => limit["nodes"] = g["nodes"]
                 /\ "movetime" \in DOMAIN g =>
                       limit["time"] = [int |-> g["movetime"] \div 1000,
                                        milli |-> g["movetime"] % 1000]
                 /\ call.plays[1].ponder = call.args["ponder"]
                 /\ call.raised = None =>
                       /\ call.move = call.reported
                       /\ \E res \in PlayResults :
                             res.move = call.move /\ res.ponder = call.ponder)
    /\ []((IsUCI /\ call.op = "first_search") =>
             DOMAIN call.plays[1].limit = {"time"})
    /\ [][IsUCI => self'.go_commands = self.go_commands]_vars

\* go_commands {movetime: 100} was kept out of configure and a pondering
\* search ran with time 0.1 s; the engine's e2e4 and e7e5 came back
C16_Witness ==
    /\ IsUCI
    /\ self.go_commands = [movetime |-> 100]
    /\ call.op = "search_with_ponder"
    /\ call.args["ponder"]
    /\ call.plays[1].limit["time"] = [int |-> 0, milli |-> 100]
    /\ call.move = "e2e4"
    /\ call.ponder = "e7e5"

(***************************************************************************)
(* Claims about searches in flight (SpecSearch)                            *)
(***************************************************************************)
SearchWithPonderBegins ==
    /\ pending = NoPending
    /\ pending' # NoPending
    /\ pending'.req.op = "search_with_ponder"

\* C13: on XBoardEngine no search_with_ponder is in its play call while
\* time_control_sent is false; a level command on the wire precedes the
\* play call; the search_with_ponder that finds the flag false sends the
\* level command and then calls play, and if the level command cannot be
\* sent the method raises with no play call made and the flag still false.
C13_LevelBeforePlay ==
    /\ []((IsXBoard /\ pending # NoPending
             /\ pending.req.op = "search_with_ponder") => self.time_control_sent)
    /\ [](\A i, j \in 1..Len(wire) :
             (wire[i] = "level" /\ wire[j] = "play") => i < j)
    /\ [][IsXBoard =>
            /\ (SearchWithPonderBegins /\ ~self.time_control_sent) =>
                  /\ wire' = <<"level", "play">>
                  /\ Len(LevelLines(pending'.sent)) = 1
                  /\ self'.time_control_sent
            /\ (SearchWithPonderBegins /\ self.time_control_sent) =>
                  wire' = <<"play">>
            /\ (pending = NoPending /\ pending' = NoPending
                   /\ call'.op = "search_with_ponder"
                   /\ ~self.time_control_sent) =>
                  /\ call'.raised # None
                  /\ call'.plays = <<>>
                  /\ call'.sent = <<>>
                  /\ ~self'.time_control_sent
                  /\ \A i \in 1..Len(wire') : wire'[i] # "play"]_vars

\* the first search_with_ponder of a game is in its play call, the level
\* command gone out before it, after an earlier try failed to send it
C13_Witness ==
    /\ IsXBoard
    /\ pending # NoPending
    /\ pending.req.op = "search_with_ponder"
    /\ wire = <<"level", "play">>
    /\ self.time_control_sent
    /\ call.op = "search_with_ponder"
    /\ call.raised = "EngineError"
    /\ call.plays = <<>>

\* C17: while a search is in its play call, stop and ponderhit can be
\* called and return with the search still in flight; a call that does
\* not raise has sent exactly one line ("stop" or "ponderhit" on UCIEngine,
\* "?" for stop on XBoardEngine; XBoardEngine inherits a ponderhit that
\* sends nothing), and the adapter is as it was.  last_move_info changes
\* only in the step in which a search returns, to the info of that search.
C17_ControlsLeaveSearchAlone ==
    /\ []((pending # NoPending /\ ControlsMade < MaxControls) =>
             (ENABLED StopDuringSearch /\ ENABLED PonderhitDuringSearch))
    /\ [][(pending # NoPending /\ pending' # NoPending /\ wire' # wire) =>
             /\ call'.op \in {"stop", "ponderhit"}
             /\ pending' = pending
             /\ self' = self
             /\ Len(wire') = Len(wire) + 1
             /\ call'.plays = <<>>
             /\ call'.configured = <<>>
             /\ call'.raised # None => call'.sent = <<>>
             /\ call'.raised = None =>
                   call'.sent =
                     (IF IsUCI THEN <<<<call'.op>>>>
                      ELSE IF call'.op = "stop" THEN <<<<"?">>>>
                      ELSE <<>>)]_vars
    /\ [][self'.last_move_info # self.last_move_info =>
             /\ pending # NoPending
             /\ pending' = NoPending
             /\ IsSearch(call')
             /\ call'.raised = None
             /\ \E res \in PlayResults :
                   res.move = call'.move /\ res.info = self'.last_move_info]_vars

\* a search on UCIEngine returned its move and info after stop and
\* ponderhit had both been sent during it
C17_Witness ==
    /\ IsUCI
    /\ pending = NoPending
    /\ wire = <<"play", "stop", "ponderhit">>
    /\ call.op = "search_with_ponder"
    /\ call.raised = None
    /\ call.move = "d2d4"
    /\ DOMAIN self.last_move_info = {"depth", "score", "pv"}
====
